---- MODULE Spec2Model ----
(***************************************************************************)
(* Model of the test-resource lifecycle of PW-Framework:                   *)
(*   - CleanupManager (src/fixtures/test-hooks/cleanup.fixture.ts), with   *)
(*     JavaScript's reference semantics for the articleSlugs array, and    *)
(*     cleanup() as an async function suspended at each delete call;       *)
(*   - ArticleApiService.deleteArticle                                     *)
(*     (src/fixtures/api/services/article-api.service.ts);                 *)
(*   - the `cleanup` fixture that owns one CleanupManager per test         *)
(*     invocation.                                                         *)
(* Spec        : any caller drives one CleanupManager directly.            *)
(* SpecFixture : one test invocation drives it through the fixture.        *)
(***************************************************************************)
EXTENDS Integers, Sequences, FiniteSets, TLC

(* ------------------------------ bounds --------------------------------- *)
NumSlugs == 3
MaxCalls == 4
MaxCleanups == 2

(* ------------------------- program constants --------------------------- *)
NO_CONTENT == 204
NOT_FOUND == 404

Slugs == 1..NumSlugs
RunIds == 1..MaxCleanups
ArrIds == 1..(MaxCleanups + 1)

\* What request.delete can produce: the promise rejects (transport error),
\* or a response with an HTTP status arrives.
DeleteResponses ==
    {[rejected |-> TRUE, status |-> 0]} \cup
    {[rejected |-> FALSE, status |-> st] : st \in {NO_CONTENT, NOT_FOUND}}

TestOutcomes == {"passed", "failed", "threw"}

VARIABLES
    arrays,        \* the heap: array object id -> its elements
    articleSlugs,  \* CleanupManager.articleSlugs: the id of the array it refers to (0 before construction)
    runs,          \* one frame per cleanup() call: pc, iterated array, iterator index, slug of the
                   \* delete in flight, result of the last settled delete, promise state
    phase,         \* "direct", or the position of the test invocation in the cleanup fixture
    hist,          \* the observable trace: calls on the manager, delete requests, settlements of cleanup()
    tests,         \* the arguments of a mergeTests(...) call: a sequence of fixture sets
    merge,         \* the mergeTests(...) call in progress: next argument, fixtures merged so far
    peer,          \* a second, concurrently running test invocation: its own five variables
    focus,         \* which of the two invocations the first five variables describe
    client,        \* one API client (BaseApiClient): token, logs, enableLogging, its requests in flight
    builder        \* one ArticleBuilder and the objects it has built

vars == <<arrays, articleSlugs, runs, phase, hist, tests, merge, peer, focus, client, builder>>

\* what the steps of one invocation leave alone
around == <<tests, merge, peer, focus, client, builder>>

(* ------------------------- Array.prototype ----------------------------- *)
includes(list, slug) == \E i \in 1..Len(list) : list[i] = slug

push(list, slug) == Append(list, slug)

filterOut(list, slug) == SelectSeq(list, LAMBDA s : s # slug)

reverse(list) == [i \in 1..Len(list) |-> list[Len(list) + 1 - i]]

(* --------------------------- CleanupManager ---------------------------- *)
registerArticleAlwaysPush(list, slug) == push(list, slug)

\* registerArticle: the contents of this.articleSlugs after the call
registerArticle(list, slug) ==
    IF ~includes(list, slug) THEN push(list, slug) ELSE list

unregisterArticleDropResult(list, slug) == list

unregisterArticleSwapRemove(list, slug) ==
    IF ~includes(list, slug) THEN list
    ELSE LET p == CHOOSE i \in 1..Len(list) : list[i] = slug
             n == Len(list)
         IN  [i \in 1..(n - 1) |-> IF i = p THEN list[n] ELSE list[i]]

\* unregisterArticle: the contents of the new array assigned to this.articleSlugs
unregisterArticle(list, slug) == filterOut(list, slug)

iterationOrderForward(list) == list

\* the array contents the for-of loop of cleanup() walks: reverse() in place
iterationOrder(list) == reverse(list)

\* ArticleApiService.deleteArticle: "throws" when the request rejects,
\* otherwise whether the status is 204
deleteArticle(resp) ==
    IF resp.rejected THEN "throws"
    ELSE IF resp.status = NO_CONTENT THEN "true" ELSE "false"

tryDeleteRethrow(result) == IF result = "throws" THEN "raise" ELSE "continue"

\* the try/catch around the awaited delete: every outcome continues the loop
tryDelete(result) == "continue"

afterLoopKeep(list) == list

\* the assignment after the loop: this.articleSlugs = []
afterLoop(list) == <<>>

(* ------------------------------- heap ---------------------------------- *)
IdleRun == [pc |-> "idle", arr |-> 0, idx |-> 0, slug |-> 0, last |-> "-", promise |-> "none"]

\* arrays still referenced by a suspended cleanup() iterator
Referenced(rs) == {rs[c].arr : c \in {d \in RunIds : rs[d].pc = "await"}}

\* a fresh array object: the least id no iterator refers to
NewArray(rs) ==
    CHOOSE a \in ArrIds \ Referenced(rs) :
        \A b \in ArrIds \ Referenced(rs) : a <= b

\* unreachable arrays are collected
Collect(arrs, cur, rs) ==
    [a \in ArrIds |-> IF a = cur \/ a \in Referenced(rs) THEN arrs[a] ELSE <<>>]

\* no mergeTests(...) call, no second invocation
NoMerge == [next |-> 0, fixtures |-> <<>>, policy |-> "-"]

NoPeer ==
    [arrays |-> [a \in ArrIds |-> <<>>], articleSlugs |-> 0,
     runs |-> [c \in RunIds |-> IdleRun], phase |-> "none", hist |-> <<>>]

\* no API client and no builder constructed
NoClient == "none"

NoBuilder == "none"

SingleInvocation ==
    /\ tests = <<>>
    /\ merge = NoMerge
    /\ peer = NoPeer
    /\ focus = 1
    /\ client = NoClient
    /\ builder = NoBuilder

(* ------------------------------ history -------------------------------- *)
Ev(op, slug, run, res) == [op |-> op, slug |-> slug, run |-> run, res |-> res]

CallOps == {"registerArticle", "unregisterArticle", "cleanup"}

NumCalls == Cardinality({i \in 1..Len(hist) : hist[i].op \in CallOps})

\* Slugs are opaque to the manager (it only compares them), so the k-th
\* distinct slug a caller passes is named k.
KnownSlugs ==
    {s \in Slugs :
        \/ \E i \in 1..Len(hist) : hist[i].op \in CallOps /\ hist[i].slug = s
        \/ \E i \in 1..Len(peer.hist) : peer.hist[i].op \in CallOps /\ peer.hist[i].slug = s}

Nameable == {s \in Slugs : s <= Cardinality(KnownSlugs) + 1}

Pending == IF articleSlugs = 0 THEN <<>> ELSE arrays[articleSlugs]

(* ------------------------------ actions -------------------------------- *)
\* new CleanupManager(...): articleSlugs = []
Constructed ==
    /\ arrays = [a \in ArrIds |-> <<>>]
    /\ articleSlugs = 1
    /\ runs = [c \in RunIds |-> IdleRun]
    /\ hist = <<>>

Init ==
    /\ Constructed
    /\ phase = "direct"
    /\ SingleInvocation

RegisterArticle(slug) ==
    /\ phase \in {"direct", "body"}
    /\ NumCalls < MaxCalls
    /\ slug \in Nameable
    /\ LET old == arrays[articleSlugs]
           new == registerArticle(old, slug)
       IN  /\ arrays' = [arrays EXCEPT ![articleSlugs] = new]
           /\ hist' = Append(hist, Ev("registerArticle", slug, 0,
                                      IF new = old THEN "noop" ELSE "added"))
    /\ UNCHANGED <<articleSlugs, runs, phase>>
    /\ UNCHANGED around

UnregisterArticleAndDelete(slug) ==
    /\ phase \in {"direct", "body"}
    /\ NumCalls < MaxCalls
    /\ slug \in Nameable
    /\ LET new == unregisterArticle(arrays[articleSlugs], slug)
           a   == NewArray(runs)
       IN  /\ articleSlugs' = a
           /\ arrays' = Collect([arrays EXCEPT ![a] = new], a, runs)
    /\ hist' = hist \o <<Ev("unregisterArticle", slug, 0, "-"), Ev("delete", slug, 0, "-")>>
    /\ UNCHANGED <<runs, phase>>
    /\ UNCHANGED around

UnregisterArticle(slug) ==
    /\ phase \in {"direct", "body"}
    /\ NumCalls < MaxCalls
    /\ slug \in Nameable
    /\ LET new == unregisterArticle(arrays[articleSlugs], slug)
           a   == NewArray(runs)
       IN  /\ articleSlugs' = a
           /\ arrays' = Collect([arrays EXCEPT ![a] = new], a, runs)
    /\ hist' = Append(hist, Ev("unregisterArticle", slug, 0, "-"))
    /\ UNCHANGED <<runs, phase>>
    /\ UNCHANGED around

LoopHeadIssuesAll(c, arr, idx, last, arrs, h) ==
    IF idx < Len(arrs[arr])
    THEN /\ runs' = [runs EXCEPT ![c] =
                        [pc |-> "await", arr |-> arr, idx |-> Len(arrs[arr]),
                         slug |-> arrs[arr][Len(arrs[arr])], last |-> last, promise |-> "pending"]]
         /\ arrays' = arrs
         /\ articleSlugs' = articleSlugs
         /\ hist' = h \o [i \in 1..(Len(arrs[arr]) - idx) |-> Ev("delete", arrs[arr][idx + i], c, "-")]
    ELSE LET rs == [runs EXCEPT ![c] =
                        [pc |-> "done", arr |-> 0, idx |-> idx, slug |-> 0,
                         last |-> last, promise |-> "resolved"]]
             a  == NewArray(rs)
         IN  /\ runs' = rs
             /\ articleSlugs' = a
             /\ arrays' = Collect([arrs EXCEPT ![a] = afterLoop(arrs[articleSlugs])], a, rs)
             /\ hist' = Append(h, Ev("resolved", 0, c, "-"))

\* One pass of the for-of loop header of run c over array arr with idx
\* elements consumed: either the next delete request is issued and cleanup()
\* suspends, or the loop ends, articleSlugs is replaced and the promise
\* resolves.  arrs and h are the heap and the trace at that point.
LoopHead(c, arr, idx, last, arrs, h) ==
    IF idx < Len(arrs[arr])
    THEN /\ runs' = [runs EXCEPT ![c] =
                        [pc |-> "await", arr |-> arr, idx |-> idx + 1,
                         slug |-> arrs[arr][idx + 1], last |-> last, promise |-> "pending"]]
         /\ arrays' = arrs
         /\ articleSlugs' = articleSlugs
         /\ hist' = Append(h, Ev("delete", arrs[arr][idx + 1], c, "-"))
    ELSE LET rs == [runs EXCEPT ![c] =
                        [pc |-> "done", arr |-> 0, idx |-> idx, slug |-> 0,
                         last |-> last, promise |-> "resolved"]]
             a  == NewArray(rs)
         IN  /\ runs' = rs
             /\ articleSlugs' = a
             /\ arrays' = Collect([arrs EXCEPT ![a] = afterLoop(arrs[articleSlugs])], a, rs)
             /\ hist' = Append(h, Ev("resolved", 0, c, "-"))

CallCleanupRejectEmpty(c) ==
    /\ runs[c].pc = "idle"
    /\ \A d \in RunIds : d < c => runs[d].pc # "idle"
    /\ IF arrays[articleSlugs] = <<>>
       THEN /\ runs' = [runs EXCEPT ![c] =
                           [pc |-> "done", arr |-> 0, idx |-> 0, slug |-> 0,
                            last |-> "-", promise |-> "rejected"]]
            /\ hist' = hist \o <<Ev("cleanup", 0, c, "-"), Ev("rejected", 0, c, "-")>>
            /\ UNCHANGED <<arrays, articleSlugs>>
       ELSE LoopHead(c, articleSlugs, 0, "-",
                     [arrays EXCEPT ![articleSlugs] = iterationOrder(@)],
                     Append(hist, Ev("cleanup", 0, c, "-")))
    /\ UNCHANGED around

\* cleanup() is called: runs synchronously up to its first await
CallCleanup(c) ==
    /\ runs[c].pc = "idle"
    /\ \A d \in RunIds : d < c => runs[d].pc # "idle"
    /\ LoopHead(c, articleSlugs, 0, "-",
                [arrays EXCEPT ![articleSlugs] = iterationOrder(@)],
                Append(hist, Ev("cleanup", 0, c, "-")))
    /\ UNCHANGED around

Cleanup(c) ==
    /\ phase = "direct"
    /\ NumCalls < MaxCalls
    /\ CallCleanup(c)
    /\ UNCHANGED phase

\* the delete request of run c settles and cleanup() continues to its next await
DeleteReturns(c, resp) ==
    /\ runs[c].pc = "await"
    /\ LET result == deleteArticle(resp)
       IN  IF tryDelete(result) = "raise"
           THEN /\ runs' = [runs EXCEPT ![c] =
                               [pc |-> "done", arr |-> 0, idx |-> @.idx, slug |-> 0,
                                last |-> result, promise |-> "rejected"]]
                /\ arrays' = Collect(arrays, articleSlugs, runs')
                /\ hist' = Append(hist, Ev("rejected", 0, c, "-"))
                /\ UNCHANGED articleSlugs
           ELSE LoopHead(c, runs[c].arr, runs[c].idx, result, arrays, hist)
    /\ UNCHANGED phase
    /\ UNCHANGED around

(* ------------------------- the cleanup fixture ------------------------- *)
InitFixture ==
    /\ arrays = [a \in ArrIds |-> <<>>]
    /\ articleSlugs = 0
    /\ runs = [c \in RunIds |-> IdleRun]
    /\ hist = <<>>
    /\ phase = "setup"
    /\ SingleInvocation

\* cleanup fixture, before use(): const cleanup = new CleanupManager(...)
FixtureSetup ==
    /\ phase = "setup"
    /\ articleSlugs' = 1
    /\ phase' = "body"
    /\ UNCHANGED <<arrays, runs, hist>>
    /\ UNCHANGED around

teardownRunsOnlyWhenPassed(outcome) == outcome = "passed"

\* `await use(cleanup)` returns to the fixture once the test body is over,
\* whatever its outcome
teardownRuns(outcome) == outcome \in TestOutcomes

\* the test body finishes
BodyEnds(outcome) ==
    /\ phase = "body"
    /\ phase' = "bodyEnded"
    /\ hist' = Append(hist, Ev("bodyEnd", 0, 0, outcome))
    /\ UNCHANGED <<arrays, articleSlugs, runs>>
    /\ UNCHANGED around

BodyOutcome == hist[CHOOSE i \in 1..Len(hist) : hist[i].op = "bodyEnd"].res

\* cleanup fixture, after use(): await cleanup.cleanup()
FixtureTeardown ==
    /\ phase = "bodyEnded"
    /\ IF teardownRuns(BodyOutcome)
       THEN /\ CallCleanup(1)
            /\ phase' = "teardown"
       ELSE /\ phase' = "done"
            /\ UNCHANGED <<arrays, articleSlugs, runs, hist>>
    /\ UNCHANGED around

\* cleanup() has settled: the fixture function returns
FixtureDone ==
    /\ phase = "teardown"
    /\ runs[1].pc = "done"
    /\ phase' = "done"
    /\ UNCHANGED <<arrays, articleSlugs, runs, hist>>
    /\ UNCHANGED around

NextFixture ==
    \/ FixtureSetup
    \/ \E slug \in Slugs : RegisterArticle(slug)
    \/ \E slug \in Slugs : UnregisterArticle(slug)
    \/ \E outcome \in TestOutcomes : BodyEnds(outcome)
    \/ FixtureTeardown
    \/ FixtureDone
    \/ \E c \in RunIds, resp \in DeleteResponses : DeleteReturns(c, resp)

SpecFixture == InitFixture /\ [][NextFixture]_vars

Next ==
    \/ \E slug \in Slugs : RegisterArticle(slug)
    \/ \E slug \in Slugs : UnregisterArticle(slug)
    \/ \E c \in RunIds : Cleanup(c)
    \/ \E c \in RunIds, resp \in DeleteResponses : DeleteReturns(c, resp)

Spec == Init /\ [][Next]_vars

(* ------------------------- the fixture runner -------------------------- *)
\* One test invocation of the test object built by base.extend(...) in
\* cleanup.fixture.ts: the providers and their dependencies are the
\* fixture functions and their destructured parameters; the order in which
\* the runner sets them up and tears them down follows section 4.2 of the
\* specification.
CREATED == 201
UNPROCESSABLE_ENTITY == 422

\* calls a test body makes on the manager in a run of the fixture runner
MaxBodyCalls == 1

Providers == {"request", "page", "cleanup", "articleApi", "userApi", "testArticle"}

\* built-in providers of the runner: their setup and teardown may raise
LibraryProviders == {"request", "page"}

DepsTestArticleWithoutCleanup(p) ==
    CASE p = "cleanup" -> {"request"}
      [] p = "articleApi" -> {"request"}
      [] p = "userApi" -> {"request"}
      [] p = "testArticle" -> {"articleApi"}
      [] OTHER -> {}

\* the providers a fixture function destructures from its first parameter
Deps(p) ==
    CASE p = "cleanup" -> {"request"}
      [] p = "articleApi" -> {"request"}
      [] p = "userApi" -> {"request"}
      [] p = "testArticle" -> {"articleApi", "cleanup"}
      [] OTHER -> {}

\* What request.post can produce for createArticle
CreateResponses ==
    {[rejected |-> TRUE, status |-> 0]} \cup
    {[rejected |-> FALSE, status |-> st] : st \in {CREATED, UNPROCESSABLE_ENTITY}}

StatusName(resp) == IF resp.rejected THEN "rejected" ELSE ToString(resp.status)

createArticleNoStatusCheck(resp) == IF resp.rejected THEN "throws" ELSE "created"

\* ArticleApiService.createArticle: throws unless the status is 201
createArticle(resp) ==
    IF resp.rejected THEN "throws"
    ELSE IF resp.status # CREATED THEN "throws" ELSE "created"

testArticleForgetsRegister(list, slug) == list

\* testArticle fixture: cleanup.registerArticle(slug)
testArticleRegisters(list, slug) == registerArticle(list, slug)

\* providers whose setup completed, in the order of completion
Resolved ==
    LET d == SelectSeq(hist, LAMBDA e : e.op = "setup")
    IN  [i \in 1..Len(d) |-> d[i].res]

ResolvedSet == {Resolved[i] : i \in 1..Len(Resolved)}

\* providers whose setup was started
Attempted == {hist[i].res : i \in {j \in 1..Len(hist) : hist[j].op \in {"setup", "setupFailed"}}}

\* providers whose teardown was run
TornDown == {hist[i].res : i \in {j \in 1..Len(hist) : hist[j].op \in {"teardown", "teardownFailed"}}}

TeardownFailures == {i \in 1..Len(hist) : hist[i].op = "teardownFailed"}

\* the fixtures the test bodies ask for; none asks for userApi
Requested == Providers \ {"userApi"}

CanSetup(p) ==
    /\ phase = "resolving"
    /\ p \in Requested
    /\ p \notin Attempted
    /\ Deps(p) \subseteq ResolvedSet

teardownOrderForward(resolved) == resolved

\* teardown runs in the reverse of the resolution order
teardownOrder(resolved) == reverse(resolved)

teardownStopsAfterFailure(failed) == ~failed

\* a teardown that raised does not stop the remaining teardowns
teardownContinues(failed) == TRUE

TearingDown == phase \in {"bodyEnded", "aborted"}

\* the provider to tear down next, "none" when the teardown is over
NextDown ==
    LET o == SelectSeq(teardownOrder(Resolved), LAMBDA p : p \notin TornDown)
    IN  IF o = <<>> \/ ~teardownContinues(TeardownFailures # {}) THEN "none" ELSE o[1]

\* what the runner reports for the invocation once the teardown is over
Reports ==
    LET setupFailed == \E i \in 1..Len(hist) : hist[i].op = "setupFailed"
        bodyFailed  == \E i \in 1..Len(hist) : hist[i].op = "bodyEnd" /\ hist[i].res # "passed"
        firstDown   == CHOOSE i \in TeardownFailures : \A j \in TeardownFailures : i <= j
    IN  (IF setupFailed THEN <<Ev("testFailed", 0, 0, "setup")>>
         ELSE IF bodyFailed THEN <<Ev("testFailed", 0, 0, "body")>> ELSE <<>>)
        \o (IF TeardownFailures # {} THEN <<Ev("teardownError", 0, 0, hist[firstDown].res)>> ELSE <<>>)

InitRunner ==
    /\ arrays = [a \in ArrIds |-> <<>>]
    /\ articleSlugs = 0
    /\ runs = [c \in RunIds |-> IdleRun]
    /\ hist = <<>>
    /\ phase = "resolving"
    /\ SingleInvocation

\* setup of a built-in provider
SetupLibrary(p, ok) ==
    /\ p \in LibraryProviders
    /\ CanSetup(p)
    /\ hist' = Append(hist, Ev(IF ok THEN "setup" ELSE "setupFailed", 0, 0, p))
    /\ phase' = IF ok THEN phase ELSE "aborted"
    /\ UNCHANGED <<arrays, articleSlugs, runs>>
    /\ UNCHANGED around

\* articleApi, userApi: new ArticleApiService(...) / new UserApiService(...), then use(service)
SetupService(p) ==
    /\ p \in {"articleApi", "userApi"}
    /\ CanSetup(p)
    /\ hist' = Append(hist, Ev("setup", 0, 0, p))
    /\ UNCHANGED <<arrays, articleSlugs, runs, phase>>
    /\ UNCHANGED around

\* cleanup: new CleanupManager(...), then use(cleanup)
SetupCleanup ==
    /\ CanSetup("cleanup")
    /\ articleSlugs' = 1
    /\ hist' = Append(hist, Ev("setup", 0, 0, "cleanup"))
    /\ UNCHANGED <<arrays, runs, phase>>
    /\ UNCHANGED around

\* testArticle: createArticle, cleanup.registerArticle(slug), then use(testArticle)
SetupTestArticle(resp) ==
    /\ CanSetup("testArticle")
    /\ LET slug == Cardinality(KnownSlugs) + 1
       IN  IF createArticle(resp) = "created" /\ articleSlugs # 0
           THEN LET old == arrays[articleSlugs]
                    new == testArticleRegisters(old, slug)
                IN  /\ arrays' = [arrays EXCEPT ![articleSlugs] = new]
                    /\ hist' = hist \o <<Ev("post", slug, 0, StatusName(resp)),
                                         Ev("registerArticle", slug, 0,
                                            IF new = old THEN "noop" ELSE "added"),
                                         Ev("setup", 0, 0, "testArticle")>>
                    /\ UNCHANGED phase
           ELSE /\ hist' = hist \o <<Ev("post", 0, 0, StatusName(resp)),
                                     Ev("setupFailed", 0, 0, "testArticle")>>
                /\ phase' = "aborted"
                /\ UNCHANGED arrays
    /\ UNCHANGED <<articleSlugs, runs>>
    /\ UNCHANGED around

\* every requested provider is set up: the test body starts
StartBody ==
    /\ phase = "resolving"
    /\ "cleanup" \in ResolvedSet
    /\ phase' = "body"
    /\ hist' = Append(hist, Ev("bodyStart", 0, 0, "-"))
    /\ UNCHANGED <<arrays, articleSlugs, runs>>
    /\ UNCHANGED around

\* calls of registerArticle / unregisterArticle made by the test body
NumBodyCalls ==
    Cardinality({i \in 1..Len(hist) :
        /\ hist[i].op \in {"registerArticle", "unregisterArticle"}
        /\ \E j \in 1..(i-1) : hist[j].op = "bodyStart"})

BodyRegisters(slug) == NumBodyCalls < MaxBodyCalls /\ RegisterArticle(slug)

BodyUnregisters(slug) == NumBodyCalls < MaxBodyCalls /\ UnregisterArticle(slug)

\* the code after use() of a provider other than cleanup
TeardownPlain(p, ok) ==
    /\ TearingDown
    /\ NextDown = p
    /\ p # "cleanup"
    /\ ok \/ p \in LibraryProviders
    /\ hist' = Append(hist, Ev(IF ok THEN "teardown" ELSE "teardownFailed", 0, 0, p))
    /\ UNCHANGED <<arrays, articleSlugs, runs, phase>>
    /\ UNCHANGED around

\* cleanup, after use(): cleanup.cleanup() is called
TeardownCleanupCall ==
    /\ TearingDown
    /\ NextDown = "cleanup"
    /\ CallCleanup(1)
    /\ UNCHANGED phase

\* cleanup, after use(): the awaited cleanup.cleanup() has settled
TeardownCleanupReturn ==
    /\ TearingDown
    /\ NextDown = "cleanup"
    /\ runs[1].pc = "done"
    /\ hist' = Append(hist, Ev(IF runs[1].promise = "resolved" THEN "teardown"
                               ELSE "teardownFailed", 0, 0, "cleanup"))
    /\ UNCHANGED <<arrays, articleSlugs, runs, phase>>
    /\ UNCHANGED around

\* the teardown is over: the runner reports the invocation
RunnerDone ==
    /\ TearingDown
    /\ NextDown = "none"
    /\ phase' = "done"
    /\ hist' = hist \o Reports
    /\ UNCHANGED <<arrays, articleSlugs, runs>>
    /\ UNCHANGED around

NextRunner ==
    \/ \E p \in Providers, ok \in BOOLEAN : SetupLibrary(p, ok)
    \/ \E p \in Providers : SetupService(p)
    \/ SetupCleanup
    \/ \E resp \in CreateResponses : SetupTestArticle(resp)
    \/ StartBody
    \/ \E slug \in Slugs : BodyRegisters(slug)
    \/ \E slug \in Slugs : BodyUnregisters(slug)
    \/ \E outcome \in TestOutcomes : BodyEnds(outcome)
    \/ \E p \in Providers, ok \in BOOLEAN : TeardownPlain(p, ok)
    \/ TeardownCleanupCall
    \/ TeardownCleanupReturn
    \/ RunnerDone
    \/ \E c \in RunIds, resp \in DeleteResponses : DeleteReturns(c, resp)

SpecRunner == InitRunner /\ [][NextRunner]_vars

(* ----------------------------- mergeTests ------------------------------ *)
\* number of fixture sets passed to one mergeTests(...) call
MaxSets == 3

\* a fixture set: each fixture name mapped to the base.extend(...) call
\* that provides it
FixtureSet(names, origin) == [n \in names |-> origin]

EmptyFixtures == FixtureSet({}, "-")

PageObjectNames ==
    {"homePage", "loginPage", "registerPage", "settingsPage", "articleEditorPage",
     "articleViewPage", "profilePage", "navigation", "homePageLegacy", "navPage",
     "articlePage"}

PageObjectFixtures == FixtureSet(PageObjectNames, "pageObjectFixture")

ApiRequestFixtures == FixtureSet({"apiRequest"}, "apiRequestFixture")

CleanupFixtureNamesWithApiRequest == {"cleanup", "articleApi", "userApi", "testArticle", "apiRequest"}

CleanupFixtureNames == {"cleanup", "articleApi", "userApi", "testArticle"}

CleanupFixtures == FixtureSet(CleanupFixtureNames, "cleanupFixture")

\* the older page-object set: three of the names of PageObjectFixtures,
\* provided by other page classes
FrameworkFixtures == FixtureSet({"homePage", "navPage", "articlePage"}, "frameworkFixture")

\* Which provider a name defined by several merged sets resolves to is
\* decided inside mergeTests: the earliest set's or the latest set's.
Policies == {"first", "last"}

mergeIntoReplaces(acc, set, policy) == set

\* one set merged into the fixtures merged so far
mergeInto(acc, set, policy) ==
    [n \in DOMAIN acc \cup DOMAIN set |->
        IF n \in DOMAIN acc /\ (policy = "first" \/ n \notin DOMAIN set)
        THEN acc[n] ELSE set[n]]

RECURSIVE mergeFrom(_, _, _, _)
mergeFrom(acc, sets, i, policy) ==
    IF i > Len(sets) THEN acc
    ELSE mergeFrom(mergeInto(acc, sets[i], policy), sets, i + 1, policy)

\* mergeTests(...sets)
mergeTests(sets, policy) == mergeFrom(EmptyFixtures, sets, 1, policy)

\* test-options.ts: mergeTests(pageObjectFixture, apiRequestFixture)
TestOptionsFixtures == mergeTests(<<PageObjectFixtures, ApiRequestFixtures>>, "first")

\* the unified fixture: mergeTests(pageObjectFixture, apiRequestFixture, cleanupFixture)
UnifiedArguments == <<PageObjectFixtures, ApiRequestFixtures, CleanupFixtures>>

FixturePool ==
    {PageObjectFixtures, ApiRequestFixtures, CleanupFixtures, FrameworkFixtures,
     TestOptionsFixtures}

InitMerge ==
    /\ arrays = [a \in ArrIds |-> <<>>]
    /\ articleSlugs = 0
    /\ runs = [c \in RunIds |-> IdleRun]
    /\ hist = <<>>
    /\ phase = "merging"
    /\ peer = NoPeer
    /\ focus = 1
    /\ client = NoClient
    /\ builder = NoBuilder
    /\ tests \in UNION {[1..k -> FixturePool] : k \in 1..MaxSets}
    /\ merge \in {[next |-> 1, fixtures |-> EmptyFixtures, policy |-> p] : p \in Policies}

\* mergeTests takes its next argument
MergeNext ==
    /\ merge.next \in 1..Len(tests)
    /\ merge' = [merge EXCEPT !.next = @ + 1,
                              !.fixtures = mergeInto(@, tests[merge.next], merge.policy)]
    /\ UNCHANGED <<arrays, articleSlugs, runs, phase, hist, tests, peer, focus, client, builder>>

NextMerge == MergeNext

SpecMerge == InitMerge /\ [][NextMerge]_vars

(* --------------------- two concurrent invocations ---------------------- *)
\* calls of registerArticle / unregisterArticle the two test bodies make together
MaxJointCalls == 2

cleanupScopeWorker == "worker"

\* the cleanup fixture is declared without a scope option: the runner calls
\* the fixture function, and with it new CleanupManager(...), once per test
\* invocation
cleanupScope == "test"

\* the invocation the first five variables describe
Here ==
    [arrays |-> arrays, articleSlugs |-> articleSlugs, runs |-> runs,
     phase |-> phase, hist |-> hist]

PeerPending ==
    IF peer.articleSlugs = 0 THEN <<>> ELSE peer.arrays[peer.articleSlugs]

\* the trace of invocation k
HistOf(k) == IF focus = k THEN hist ELSE peer.hist

\* the pending list of the manager invocation k uses
PendingOf(k) ==
    IF focus = k \/ cleanupScope = "worker" THEN Pending ELSE PeerPending

NumJointCalls ==
    Cardinality({i \in 1..Len(hist) : hist[i].op \in {"registerArticle", "unregisterArticle"}})
    + Cardinality({i \in 1..Len(peer.hist) :
                      peer.hist[i].op \in {"registerArticle", "unregisterArticle"}})

InitWorkers ==
    /\ arrays = [a \in ArrIds |-> <<>>]
    /\ articleSlugs = 0
    /\ runs = [c \in RunIds |-> IdleRun]
    /\ hist = <<>>
    /\ phase = "setup"
    /\ tests = <<>>
    /\ merge = NoMerge
    /\ peer = [NoPeer EXCEPT !.phase = "setup"]
    /\ focus = 1
    /\ client = NoClient
    /\ builder = NoBuilder

\* the runner's other worker takes its next step
Switch ==
    /\ focus' = 3 - focus
    /\ runs' = peer.runs
    /\ phase' = peer.phase
    /\ hist' = peer.hist
    /\ peer' = Here
    /\ IF cleanupScope = "test"
       THEN /\ arrays' = peer.arrays
            /\ articleSlugs' = peer.articleSlugs
       ELSE UNCHANGED <<arrays, articleSlugs>>
    /\ UNCHANGED <<tests, merge, client, builder>>

WorkerRegisters(slug) == NumJointCalls < MaxJointCalls /\ RegisterArticle(slug)

WorkerUnregisters(slug) == NumJointCalls < MaxJointCalls /\ UnregisterArticle(slug)

NextWorkers ==
    \/ FixtureSetup
    \/ \E slug \in Slugs : WorkerRegisters(slug)
    \/ \E slug \in Slugs : WorkerUnregisters(slug)
    \/ \E outcome \in TestOutcomes : BodyEnds(outcome)
    \/ FixtureTeardown
    \/ FixtureDone
    \/ \E c \in RunIds, resp \in DeleteResponses : DeleteReturns(c, resp)
    \/ Switch

SpecWorkers == InitWorkers /\ [][NextWorkers]_vars

(* ----------------------------- API errors ------------------------------ *)
OK == 200
BAD_REQUEST == 400
UNAUTHORIZED == 401
FORBIDDEN == 403
INTERNAL_SERVER_ERROR == 500

\* tokens a server hands out; 0 stands for undefined
Tokens == {1, 2}

\* Response bodies after parseResponseBody: null, an object matching the
\* schema the caller validates against (carrying a user token), an object
\* without an errors field, and objects whose errors field is an object of
\* message lists, null, an object of plain strings, or a number.
NullBody == [json |-> "null", errors |-> "absent", valid |-> FALSE, token |-> 0]

ValidBody(t) == [json |-> "object", errors |-> "absent", valid |-> TRUE, token |-> t]

ErrorBody(e) == [json |-> "object", errors |-> e, valid |-> FALSE, token |-> 0]

ErrorBodies == {ErrorBody(e) : e \in {"absent", "lists", "null", "strings", "number"}}

Bodies == {NullBody} \cup {ValidBody(t) : t \in Tokens} \cup ErrorBodies

ErrorStatuses ==
    {BAD_REQUEST, UNAUTHORIZED, FORBIDDEN, NOT_FOUND, UNPROCESSABLE_ENTITY,
     INTERNAL_SERVER_ERROR, INTERNAL_SERVER_ERROR + 3}

\* What the request context can produce for one request: the call rejects
\* (transport error), or a response with a status and a body arrives.
Responses ==
    {[rejected |-> TRUE, status |-> 0, body |-> NullBody]}
    \cup {[rejected |-> FALSE, status |-> OK, body |-> b] :
             b \in {NullBody, ErrorBody("absent")} \cup {ValidBody(t) : t \in Tokens}}
    \cup {[rejected |-> FALSE, status |-> NO_CONTENT, body |-> NullBody]}
    \cup {[rejected |-> FALSE, status |-> UNPROCESSABLE_ENTITY, body |-> b] :
             b \in {NullBody} \cup ErrorBodies}
    \cup {[rejected |-> FALSE, status |-> st, body |-> b] :
             st \in ErrorStatuses \ {UNPROCESSABLE_ENTITY},
             b \in {ErrorBody("absent"), ErrorBody("null")}}

\* typeof x === 'object' for the errors field of a body
typeofIsObject(e) == e \in {"lists", "null", "strings"}

\* isValidationErrorResponse: an object with an errors field of type object
isValidationErrorResponse(body) ==
    /\ body.json = "object"
    /\ body.errors # "absent"
    /\ typeofIsObject(body.errors)

Raised(name) == [raised |-> TRUE, name |-> name, status |-> 0]

AnApiError(name, status) == [raised |-> FALSE, name |-> name, status |-> status]

\* new ValidationError(endpoint, method, errors): Object.entries(errors.errors)
\* raises on null, messages?.join raises on a message that is not a list
ValidationErrorConstructor(body, status) ==
    IF body.errors = "null" \/ body.errors = "strings"
    THEN Raised("TypeError")
    ELSE AnApiError("ValidationError", status)

\* createApiError(status, endpoint, method, responseBody): the error object
\* it returns, or what it raises
createApiError(status, body) ==
    CASE status = UNAUTHORIZED -> AnApiError("AuthenticationError", UNAUTHORIZED)
      [] status = FORBIDDEN -> AnApiError("AuthorizationError", FORBIDDEN)
      [] status = NOT_FOUND -> AnApiError("NotFoundError", NOT_FOUND)
      [] status = UNPROCESSABLE_ENTITY ->
            IF isValidationErrorResponse(body)
            THEN ValidationErrorConstructor(body, UNPROCESSABLE_ENTITY)
            ELSE AnApiError("ApiError", status)
      [] OTHER ->
            IF status >= INTERNAL_SERVER_ERROR
            THEN AnApiError("ServerError", status)
            ELSE AnApiError("ApiError", status)

ApiErrorNames ==
    {"ApiError", "ValidationError", "AuthenticationError", "AuthorizationError",
     "NotFoundError", "ServerError"}

(* ------------------------------ API client ----------------------------- *)
\* requests made on one client, and setLogging / clearLogs / getLogs calls
MaxRequests == 2
MaxLogCalls == 2

ReqIds == 1..MaxRequests

\* methods of ArticleApiClient and UserApiClient, which log in the client
ClientOps == {"getArticle", "login", "loginWithResponse", "deleteArticleIfExists"}

\* ArticleApiService.deleteArticleIfExists, which uses the request context directly
ServiceOps == {"serviceDeleteArticleIfExists"}

Returns(value, status, token) ==
    [raised |-> FALSE, name |-> "-", value |-> value, status |-> status, token |-> token]

Throws(name) == [raised |-> TRUE, name |-> name, value |-> "-", status |-> 0, token |-> 0]

\* BaseApiClient.makeRequest after the request settled
makeRequest(resp, failSilently) ==
    IF resp.rejected THEN Throws("TransportError")
    ELSE IF resp.status >= BAD_REQUEST
         THEN IF failSilently
              THEN Returns("response", resp.status, 0)
              ELSE Throws(createApiError(resp.status, resp.body).name)
         ELSE Returns("response", resp.status, 0)

\* BaseApiClient.validateResponse, then what the caller returns
validated(resp, value) ==
    IF resp.body.valid
    THEN Returns(value, resp.status, resp.body.token)
    ELSE Throws("SchemaValidationError")

getArticleNullOnAnyError(resp) ==
    LET r == makeRequest(resp, FALSE)
    IN  IF r.raised
        THEN Returns("null", 0, 0)
        ELSE validated(resp, "article")

\* ArticleApiClient.getArticle
getArticle(resp) ==
    LET r == makeRequest(resp, FALSE)
    IN  IF r.raised
        THEN IF r.name = "NotFoundError" THEN Returns("null", 0, 0) ELSE r
        ELSE validated(resp, "article")

\* UserApiClient.login: the value returned or the error raised
login(resp) ==
    LET r == makeRequest(resp, FALSE)
    IN  IF r.raised THEN r ELSE validated(resp, "user")

tokenAfterLoginSetBeforeValidation(token, resp) ==
    IF makeRequest(resp, FALSE).raised THEN token ELSE resp.body.token

\* UserApiClient.login: this.token once the call has settled
tokenAfterLogin(token, resp) ==
    IF login(resp).raised THEN token ELSE login(resp).token

\* UserApiClient.loginWithResponse
loginWithResponse(resp) == makeRequest(resp, TRUE)

\* ArticleApiClient.deleteArticleIfExists
deleteArticleIfExists(resp) ==
    LET r == makeRequest(resp, TRUE)
    IN  IF r.raised THEN r ELSE Returns("void", 0, 0)

\* ArticleApiService.deleteArticleIfExists: try { await this.deleteArticle(slug) } catch {}
serviceDeleteArticleIfExists(resp) == Returns("void", 0, 0)

Outcome(op, resp) ==
    CASE op = "getArticle" -> getArticle(resp)
      [] op = "login" -> login(resp)
      [] op = "loginWithResponse" -> loginWithResponse(resp)
      [] op = "deleteArticleIfExists" -> deleteArticleIfExists(resp)
      [] OTHER -> serviceDeleteArticleIfExists(resp)

logAlways(logs, enabled, entry) == Append(logs, entry)

\* BaseApiClient.log
log(logs, enabled, entry) == IF enabled THEN Append(logs, entry) ELSE logs


\* BaseApiClient.getLogs: [...this.logs]
getLogs(logs) == [alias |-> FALSE, items |-> logs]

IdleRequest == [pc |-> "idle", op |-> "-"]

NoResult == [op |-> "-", req |-> 0, resp |-> [rejected |-> TRUE, status |-> 0, body |-> NullBody],
             result |-> Throws("-"), tokenBefore |-> 0]

NoArray == [alias |-> FALSE, items |-> <<"none">>]

InitClient ==
    /\ arrays = [a \in ArrIds |-> <<>>]
    /\ articleSlugs = 0
    /\ runs = [c \in RunIds |-> IdleRun]
    /\ hist = <<>>
    /\ phase = "client"
    /\ tests = <<>>
    /\ merge = NoMerge
    /\ peer = NoPeer
    /\ focus = 1
    /\ builder = NoBuilder
    /\ client \in {[token |-> t, logs |-> <<>>, enableLogging |-> TRUE,
                    requests |-> [r \in ReqIds |-> IdleRequest], last |-> NoResult,
                    returned |-> NoArray, issuedEnabled |-> 0, completedEnabled |-> 0,
                    logCalls |-> 0] : t \in {1}}

ClientFrame == <<arrays, articleSlugs, runs, phase, hist, tests, merge, peer, focus, builder>>

\* a method of a client (or of the service) is called: it runs up to the
\* await of its request; last holds the outcome of a call until the caller's
\* next step
IssueRequest(op) ==
    /\ \E r \in ReqIds :
          /\ client.requests[r].pc = "idle"
          /\ \A q \in ReqIds : q < r => client.requests[q].pc # "idle"
          /\ client' = [client EXCEPT
                !.requests[r] = [pc |-> "flying", op |-> op],
                !.last = NoResult,
                !.issuedEnabled = IF op \in ClientOps /\ client.enableLogging THEN @ + 1 ELSE @]
    /\ UNCHANGED ClientFrame

\* the request of call r settles and the method runs to its end
RequestSettles(r, resp) ==
    /\ client.requests[r].pc = "flying"
    /\ LET op == client.requests[r].op
       IN  client' = [client EXCEPT
                !.requests[r] = [pc |-> "done", op |-> "-"],
                !.logs = IF op \in ClientOps
                         THEN log(@, client.enableLogging,
                                  IF resp.rejected THEN "error" ELSE "status")
                         ELSE @,
                !.completedEnabled = IF op \in ClientOps /\ client.enableLogging THEN @ + 1 ELSE @,
                !.token = IF op = "login" THEN tokenAfterLogin(@, resp) ELSE @,
                !.last = [op |-> op, req |-> r, resp |-> resp, result |-> Outcome(op, resp),
                          tokenBefore |-> client.token]]
    /\ UNCHANGED ClientFrame

SetLogging(enabled) ==
    /\ client.logCalls < MaxLogCalls
    /\ client' = [client EXCEPT !.enableLogging = enabled, !.logCalls = @ + 1,
                                !.last = NoResult]
    /\ UNCHANGED ClientFrame

ClearLogs ==
    /\ client.logCalls < MaxLogCalls
    /\ client' = [client EXCEPT !.logs = <<>>, !.logCalls = @ + 1, !.last = NoResult,
                                !.issuedEnabled = 0, !.completedEnabled = 0]
    /\ UNCHANGED ClientFrame

GetLogs ==
    /\ client.logCalls < MaxLogCalls
    /\ client' = [client EXCEPT !.returned = getLogs(client.logs), !.logCalls = @ + 1,
                                !.last = NoResult]
    /\ UNCHANGED ClientFrame

\* the caller pushes an entry of its own onto the array getLogs returned
MutateReturned ==
    /\ client.returned # NoArray
    /\ "foreign" \notin {client.returned.items[i] : i \in 1..Len(client.returned.items)}
    /\ client' = [client EXCEPT
            !.returned.items = Append(@, "foreign"),
            !.last = NoResult,
            !.logs = IF client.returned.alias THEN Append(@, "foreign") ELSE @]
    /\ UNCHANGED ClientFrame

\* the methods of the clients under every response
NextClient ==
    \/ \E op \in ClientOps \cup ServiceOps : IssueRequest(op)
    \/ \E r \in ReqIds, resp \in Responses : RequestSettles(r, resp)

SpecClient == InitClient /\ [][NextClient]_vars

\* for the log only two things matter: whether the method logs in the
\* client, and whether a response arrived or the transport raised
LoggedOps == {"getArticle", "serviceDeleteArticleIfExists"}

LoggedResponses ==
    {resp \in Responses :
        \/ resp.rejected
        \/ resp.status = NOT_FOUND /\ resp.body = ErrorBody("absent")
        \/ resp.status = OK /\ resp.body = ValidBody(1)}

\* requests interleaved with setLogging, clearLogs and getLogs
NextClientLogs ==
    \/ \E op \in LoggedOps : IssueRequest(op)
    \/ \E r \in ReqIds, resp \in LoggedResponses : RequestSettles(r, resp)
    \/ \E enabled \in BOOLEAN : SetLogging(enabled)
    \/ ClearLogs
    \/ GetLogs
    \/ MutateReturned

SpecClientLogs == InitClient /\ [][NextClientLogs]_vars

(* ----------------------------- ArticleBuilder -------------------------- *)
MaxBuilderCalls == 3

\* strings a test passes to the builder; "faker" is a generated default
Texts == {"faker", "custom"}

TagNames == {"t1", "t2"}

\* arrays a test passes to withTags
TagArguments == {<<"t1">>, <<"t1", "t2">>}

\* new ArticleBuilder(): generated defaults, tagList a new array of two words
\* (the first array of the builder's heap)
Constructor ==
    [article |-> [title |-> [prefix |-> 0, text |-> "faker"], description |-> "faker",
                  body |-> "faker", tagList |-> 1],
     heap |-> << <<"faker1", "faker2">> >>,
     built |-> <<>>,
     calls |-> 0]

InitBuilder ==
    /\ arrays = [a \in ArrIds |-> <<>>]
    /\ articleSlugs = 0
    /\ runs = [c \in RunIds |-> IdleRun]
    /\ hist = <<>>
    /\ phase = "builder"
    /\ tests = <<>>
    /\ merge = NoMerge
    /\ peer = NoPeer
    /\ focus = 1
    /\ client = NoClient
    /\ builder = Constructor

BuilderFrame == <<arrays, articleSlugs, runs, phase, hist, tests, merge, peer, focus, client>>

\* a method of the builder may be called
CanCall == phase = "builder" /\ builder.calls < MaxBuilderCalls

\* the builder after a call that left it as b
Called(b) == [b EXCEPT !.calls = @ + 1]

\* this.article.tagList = <an array the builder did not hold before>
AssignNewTagList(b, tags) ==
    [b EXCEPT !.heap = Append(@, tags), !.article.tagList = Len(b.heap) + 1]

withTitle(title) ==
    /\ CanCall
    /\ builder' = Called([builder EXCEPT !.article.title = [prefix |-> 0, text |-> title]])
    /\ UNCHANGED BuilderFrame

withDescription(description) ==
    /\ CanCall
    /\ builder' = Called([builder EXCEPT !.article.description = description])
    /\ UNCHANGED BuilderFrame

withBody(body) ==
    /\ CanCall
    /\ builder' = Called([builder EXCEPT !.article.body = body])
    /\ UNCHANGED BuilderFrame

\* this.article.tagList = tags: the array the test passed
withTags(tags) ==
    /\ CanCall
    /\ builder' = Called(AssignNewTagList(builder, tags))
    /\ UNCHANGED BuilderFrame

\* this.article.tagList.push(tag): the array is changed in place
addTag(tag) ==
    /\ CanCall
    /\ builder' = Called([builder EXCEPT !.heap[builder.article.tagList] = Append(@, tag)])
    /\ UNCHANGED BuilderFrame

\* this.article.tagList = []
withNoTags ==
    /\ CanCall
    /\ builder' = Called(AssignNewTagList(builder, <<>>))
    /\ UNCHANGED BuilderFrame

\* the title gets one more timestamp prefix
withTimestampPrefix ==
    /\ CanCall
    /\ builder' = Called([builder EXCEPT !.article.title.prefix = @ + 1])
    /\ UNCHANGED BuilderFrame

\* { ...this.article }: the fields are copied, tagList is the same array;
\* copied records what the object's fields were when it was built
BuiltObject(b, wrapped) ==
    [title |-> b.article.title, description |-> b.article.description,
     body |-> b.article.body, tagList |-> b.article.tagList, payload |-> wrapped,
     copied |-> [title |-> b.article.title, description |-> b.article.description,
                 body |-> b.article.body, tagList |-> b.heap[b.article.tagList]]]

build ==
    /\ CanCall
    /\ builder' = Called([builder EXCEPT !.built = Append(@, BuiltObject(builder, FALSE))])
    /\ UNCHANGED BuilderFrame

\* { article: this.build() }
buildPayload ==
    /\ CanCall
    /\ builder' = Called([builder EXCEPT !.built = Append(@, BuiltObject(builder, TRUE))])
    /\ UNCHANGED BuilderFrame

NextBuilder ==
    \/ \E title \in Texts : withTitle(title)
    \/ \E description \in Texts : withDescription(description)
    \/ \E body \in Texts : withBody(body)
    \/ \E tags \in TagArguments : withTags(tags)
    \/ \E tag \in TagNames : addTag(tag)
    \/ withNoTags
    \/ withTimestampPrefix
    \/ build
    \/ buildPayload

SpecBuilder == InitBuilder /\ [][NextBuilder]_vars

(* ------------------------ reading the history -------------------------- *)
IsReg(i, s) == hist[i].op = "registerArticle" /\ hist[i].slug = s

IsUnreg(i, s) == hist[i].op = "unregisterArticle" /\ hist[i].slug = s

\* position of the call of run c, 0 when it was not called yet
StartAt(c) ==
    IF \E i \in 1..Len(hist) : hist[i].op = "cleanup" /\ hist[i].run = c
    THEN CHOOSE i \in 1..Len(hist) : hist[i].op = "cleanup" /\ hist[i].run = c
    ELSE 0

\* position at which the promise of run c settled, 0 when it did not yet
EndAt(c) ==
    IF \E i \in 1..Len(hist) : hist[i].op \in {"resolved", "rejected"} /\ hist[i].run = c
    THEN CHOOSE i \in 1..Len(hist) : hist[i].op \in {"resolved", "rejected"} /\ hist[i].run = c
    ELSE 0

\* the slugs of the delete requests issued by run c, in the order of issue
DeletesOf(c) ==
    LET d == SelectSeq(hist, LAMBDA e : e.op = "delete" /\ e.run = c)
    IN  [i \in 1..Len(d) |-> d[i].slug]

DeleteCount(s) == Cardinality({i \in 1..Len(hist) : hist[i].op = "delete" /\ hist[i].slug = s})

AddCount(s) == Cardinality({i \in 1..Len(hist) : IsReg(i, s) /\ hist[i].res = "added"})

Elems(list) == {list[i] : i \in 1..Len(list)}

NoDuplicates(list) == \A i, j \in 1..Len(list) : i # j => list[i] # list[j]

\* position of the last unregisterArticle(s) before position j, 0 if none
LastUnregBefore(s, j) ==
    IF \E k \in 1..(j - 1) : IsUnreg(k, s)
    THEN CHOOSE k \in 1..(j - 1) : IsUnreg(k, s) /\ \A m \in (k + 1)..(j - 1) : ~IsUnreg(m, s)
    ELSE 0

\* slugs registered and not unregistered afterwards, in the calls before position j
StillPendingAt(j) ==
    {s \in Slugs : \E i \in (LastUnregBefore(s, j) + 1)..(j - 1) : IsReg(i, s)}

\* position of the registerArticle call that made s pending (s \in StillPendingAt(j))
RegisteredAt(s, j) ==
    CHOOSE i \in (LastUnregBefore(s, j) + 1)..(j - 1) :
        /\ IsReg(i, s)
        /\ \A m \in (LastUnregBefore(s, j) + 1)..(i - 1) : ~IsReg(m, s)

\* run c was called after register/unregister calls only, and nothing else
\* happened on the manager between its call and now
Alone(c) ==
    /\ StartAt(c) > 0
    /\ \A i \in 1..(StartAt(c) - 1) : hist[i].op \in {"registerArticle", "unregisterArticle", "bodyEnd"}
    /\ \A i \in (StartAt(c) + 1)..Len(hist) : hist[i].run = c

LastEvent == hist[Len(hist)]

(* ------------------------------- claims -------------------------------- *)

\* C1: in every reachable state the pending list (articleSlugs) holds each
\* slug at most once, and a registerArticle of a slug that is already pending
\* leaves the list unchanged.
C1_RegisterNoop ==
    \A s \in Slugs :
        (/\ Len(hist') = Len(hist) + 1
         /\ hist'[Len(hist')].op = "registerArticle"
         /\ hist'[Len(hist')].slug = s
         /\ s \in Elems(Pending))
        => Pending' = Pending

C1_PendingUnique == [](NoDuplicates(Pending)) /\ [][C1_RegisterNoop]_vars

C1_Witness ==
    /\ Len(hist) >= 3
    /\ LastEvent.op = "registerArticle"
    /\ \E i \in 1..(Len(hist) - 1) :
          /\ IsReg(i, LastEvent.slug)
          /\ \A k \in (i + 1)..Len(hist) : hist[k].op = "registerArticle"
    /\ Len(Pending) = 2

\* C2: when one cleanup() follows a sequence of registerArticle /
\* unregisterArticle calls and runs alone, its delete requests are issued in
\* the reverse of the order in which the still-pending slugs were registered:
\* at every moment the requests issued so far are the most recently
\* registered slugs, latest first, and when cleanup() has settled every
\* still-pending slug has had its request.
C2_ReverseRegistrationOrder ==
    \A c \in RunIds :
        Alone(c) =>
            LET j == StartAt(c)
                d == DeletesOf(c)
                P == StillPendingAt(j)
            IN  /\ Elems(d) \subseteq P
                /\ \A p, q \in 1..Len(d) :
                      p < q => RegisteredAt(d[p], j) > RegisteredAt(d[q], j)
                /\ \A s \in P \ Elems(d) : \A p \in 1..Len(d) :
                      RegisteredAt(s, j) < RegisteredAt(d[p], j)
                /\ (EndAt(c) > 0 => Elems(d) = P)

C2_Witness ==
    \E c \in RunIds :
        /\ Alone(c)
        /\ EndAt(c) > 0
        /\ Len(DeletesOf(c)) >= 2
        /\ \E i \in 1..StartAt(c) : hist[i].op = "unregisterArticle"

\* C3: the number of delete requests issued for a slug never exceeds the
\* number of times the slug was added to the pending list, also when
\* cleanup() is called again while an earlier cleanup() is suspended.
C3_AtMostOneDeletePerRegistration ==
    \A s \in Slugs : DeleteCount(s) <= AddCount(s)

\* position of the end of the test body, 0 while it is running
BodyEndAt ==
    IF \E i \in 1..Len(hist) : hist[i].op = "bodyEnd"
    THEN CHOOSE i \in 1..Len(hist) : hist[i].op = "bodyEnd"
    ELSE 0

CleanupCalls == {i \in 1..Len(hist) : hist[i].op = "cleanup"}

C6_CleanupNeverRejects ==
    \A c \in RunIds :
        /\ runs[c].promise # "rejected"
        /\ runs[c].pc = "done" => runs[c].promise = "resolved"
        /\ \A i \in 1..Len(hist) : hist[i].op # "rejected"

C6_Witness ==
    \E c \in RunIds :
        /\ runs[c].pc = "done"
        /\ runs[c].promise = "resolved"
        /\ runs[c].last = "throws"
        /\ Len(DeletesOf(c)) >= 2

\* C7: a delete call that raises does not end the pass: when the delete of
\* run c raises and the iterated array has a further position, the delete
\* request for that position is issued; and a cleanup() that ran alone has,
\* when it is finished, issued a request for every still-pending slug.
C7_StepAfterThrow ==
    \A c \in RunIds :
        (/\ runs[c].pc = "await"
         /\ runs'[c] # runs[c]
         /\ runs'[c].last = "throws"
         /\ runs[c].idx < Len(arrays[runs[c].arr]))
        => /\ runs'[c].pc = "await"
           /\ hist' = Append(hist, Ev("delete", arrays[runs[c].arr][runs[c].idx + 1], c, "-"))

C7_AllAttempted ==
    \A c \in RunIds :
        (Alone(c) /\ runs[c].pc = "done") => StillPendingAt(StartAt(c)) \subseteq Elems(DeletesOf(c))

C7_FailureDoesNotSkip == []C7_AllAttempted /\ [][C7_StepAfterThrow]_vars

C7_Witness ==
    \E c \in RunIds :
        /\ Alone(c)
        /\ runs[c].pc = "await"
        /\ runs[c].idx >= 2
        /\ runs[c].last = "throws"

\* C8: at the moment a cleanup() completes the pending list is empty, and a
\* cleanup() called after another one completed, with no registerArticle in
\* between, issues no delete request.
C8_EmptyAfterCleanup ==
    /\ (hist # <<>> /\ LastEvent.op \in {"resolved", "rejected"}) => Pending = <<>>
    /\ \A c1, c2 \in RunIds :
          (/\ EndAt(c1) > 0
           /\ StartAt(c2) > EndAt(c1)
           /\ \A i \in EndAt(c1)..StartAt(c2) : hist[i].op # "registerArticle")
          => DeletesOf(c2) = <<>>

C8_Witness ==
    \E c1, c2 \in RunIds :
        /\ EndAt(c1) > 0
        /\ StartAt(c2) > EndAt(c1)
        /\ EndAt(c2) > 0
        /\ Len(DeletesOf(c1)) >= 2
        /\ runs[c1].last # "true"

\* s was registered, then unregistered, and not registered again, all before position j
UnregisteredBefore(s, j) ==
    \E i, k \in 1..(j - 1) :
        /\ i < k
        /\ IsReg(i, s)
        /\ IsUnreg(k, s)
        /\ \A m \in (k + 1)..Len(hist) : ~IsReg(m, s)

\* C9: a slug that was registered and then unregistered before cleanup()
\* starts, and not registered again, gets no delete request from that
\* cleanup().
C9_UnregisteredNotDeleted ==
    \A c \in RunIds : \A s \in Slugs :
        (StartAt(c) > 0 /\ UnregisteredBefore(s, StartAt(c))) => s \notin Elems(DeletesOf(c))

C9_Witness ==
    \E c \in RunIds : \E s \in Slugs :
        /\ StartAt(c) > 0
        /\ UnregisteredBefore(s, StartAt(c))
        /\ EndAt(c) > 0
        /\ DeletesOf(c) # <<>>

Before(list, a, b) == \E i, j \in 1..Len(list) : i < j /\ list[i] = a /\ list[j] = b

\* C10: unregisterArticle(slug) of a slug that is not pending leaves the
\* pending list unchanged; of a pending slug it removes that slug only and
\* keeps the relative order of the other pending slugs.
C10_UnregisterStep ==
    \A s \in Slugs :
        (/\ Len(hist') = Len(hist) + 1
         /\ hist'[Len(hist')].op = "unregisterArticle"
         /\ hist'[Len(hist')].slug = s)
        => /\ s \notin Elems(Pending) => Pending' = Pending
           /\ Elems(Pending') = Elems(Pending) \ {s}
           /\ NoDuplicates(Pending')
           /\ \A a, b \in Slugs \ {s} : Before(Pending, a, b) => Before(Pending', a, b)

C10_UnregisterFrame == [][C10_UnregisterStep]_vars

C10_Witness ==
    /\ Len(hist) >= 4
    /\ LastEvent.op = "unregisterArticle"
    /\ IsReg(1, LastEvent.slug)
    /\ \A i \in 1..(Len(hist) - 1) : hist[i].op = "registerArticle"
    /\ Len(Pending) = 2

\* C11: registerArticle and unregisterArticle only do bookkeeping: such a
\* call adds its own entry to the trace and nothing else, leaves every
\* cleanup() frame as it was, and every delete request in the trace was
\* issued by a cleanup() between its call and its settlement.
C11_BookkeepingStep ==
    (/\ Len(hist') > Len(hist)
     /\ hist'[Len(hist) + 1].op \in {"registerArticle", "unregisterArticle"})
    => /\ Len(hist') = Len(hist) + 1
       /\ runs' = runs

C11_DeletesInsideCleanup ==
    \A i \in 1..Len(hist) :
        hist[i].op = "delete" =>
            /\ hist[i].run \in RunIds
            /\ StartAt(hist[i].run) \in 1..(i - 1)
            /\ EndAt(hist[i].run) = 0 \/ EndAt(hist[i].run) > i

C11_OnlyCleanupDeletes == []C11_DeletesInsideCleanup /\ [][C11_BookkeepingStep]_vars

C11_Witness ==
    /\ Len(hist) >= 4
    /\ LastEvent.op = "unregisterArticle"
    /\ \E i \in 1..Len(hist) : hist[i].op = "registerArticle" /\ hist[i].res = "added"
    /\ \E c \in RunIds : runs[c].pc = "await" /\ runs[c].slug = LastEvent.slug

\* C12: cleanup() called while the pending list is empty resolves at once
\* and issues no delete request.
C12_EmptyStep ==
    \A c \in RunIds :
        (/\ runs[c].pc = "idle"
         /\ runs'[c].pc # "idle"
         /\ Pending = <<>>)
        => /\ runs'[c].pc = "done"
           /\ runs'[c].promise = "resolved"
           /\ hist' = hist \o <<Ev("cleanup", 0, c, "-"), Ev("resolved", 0, c, "-")>>

C12_EmptyCleanup == [][C12_EmptyStep]_vars

C12_Witness ==
    \E c \in RunIds :
        /\ runs[c].pc = "done"
        /\ runs[c].promise = "resolved"
        /\ DeletesOf(c) = <<>>
        /\ \E i \in 1..StartAt(c) : hist[i].op = "unregisterArticle"
        /\ \E i \in 1..StartAt(c) : hist[i].op = "registerArticle"

(* ------------------------ claims about the fixture runner -------------- *)
\* providers whose teardown was run, in the order in which it was run
Downs ==
    LET d == SelectSeq(hist, LAMBDA e : e.op \in {"teardown", "teardownFailed"})
    IN  [i \in 1..Len(d) |-> d[i].res]

IsPrefix(a, b) == Len(a) <= Len(b) /\ \A i \in 1..Len(a) : a[i] = b[i]

SetupBefore(p, i) == \E j \in 1..(i-1) : hist[j].op = "setup" /\ hist[j].res = p

\* position of the first event of kind op about provider p, 0 if none
EventAt(op, p) ==
    IF \E i \in 1..Len(hist) : hist[i].op = op /\ hist[i].res = p
    THEN CHOOSE i \in 1..Len(hist) :
            /\ hist[i].op = op /\ hist[i].res = p
            /\ \A j \in 1..(i-1) : ~(hist[j].op = op /\ hist[j].res = p)
    ELSE 0

\* C13: a provider's setup starts only after the setup of every provider it
\* depends on has completed (for testArticle: after cleanup and articleApi),
\* teardowns run in the exact reverse of the resolution order, and
\* cleanup.cleanup() is called after testArticle's teardown.
C13_DependencyOrder ==
    /\ \A i \in 1..Len(hist) :
          hist[i].op \in {"setup", "setupFailed"} =>
             /\ \A d \in Deps(hist[i].res) : SetupBefore(d, i)
             /\ hist[i].res = "testArticle" =>
                   SetupBefore("cleanup", i) /\ SetupBefore("articleApi", i)
             /\ hist[i].res \in {"cleanup", "articleApi", "userApi"} =>
                   SetupBefore("request", i)
    /\ \A i \in 1..Len(hist) :
          hist[i].op = "post" => \E j \in 1..(i-1) : hist[j].op = "setup" /\ hist[j].res = "cleanup"
    /\ IsPrefix(Downs, reverse(Resolved))
    /\ phase = "done" => Downs = reverse(Resolved)
    /\ \A c \in RunIds :
          (StartAt(c) # 0 /\ "testArticle" \in ResolvedSet) =>
             EventAt("teardown", "testArticle") \in 1..(StartAt(c) - 1)

C13_Witness ==
    /\ phase = "done"
    /\ Resolved = <<"request", "articleApi", "cleanup", "page", "testArticle">>
    /\ Downs = <<"testArticle", "page", "cleanup", "articleApi", "request">>
    /\ \E i \in 1..Len(hist) : hist[i].op = "delete"

\* C14: when a provider's setup raises, no further provider is set up, the
\* test body never runs, the failed provider is not torn down, the providers
\* resolved before are torn down in reverse order and the runner reports the
\* setup failure as the test's failure; when createArticle throws on a status
\* other than 201, nothing is registered and cleanup.cleanup() still runs.
C14_SetupFailure ==
    /\ \A i \in 1..Len(hist) :
          hist[i].op = "setupFailed" =>
             /\ \A j \in (i+1)..Len(hist) :
                   hist[j].op \notin {"setup", "setupFailed", "post", "bodyStart", "bodyEnd",
                                       "registerArticle", "unregisterArticle"}
             /\ \A j \in 1..Len(hist) :
                   hist[j].op \in {"teardown", "teardownFailed"} => hist[j].res # hist[i].res
             /\ phase # "resolving" /\ phase # "body"
             /\ phase = "done" =>
                   /\ Downs = reverse(Resolved)
                   /\ \E j \in (i+1)..Len(hist) : hist[j] = Ev("testFailed", 0, 0, "setup")
    /\ \A i \in 1..Len(hist) :
          (hist[i].op = "post" /\ hist[i].res # ToString(CREATED)) =>
             /\ i < Len(hist) /\ hist[i+1] = Ev("setupFailed", 0, 0, "testArticle")
             /\ \A j \in 1..Len(hist) : hist[j].op # "registerArticle"
             /\ Pending = <<>>
             /\ phase = "done" => \E c \in RunIds : StartAt(c) > i /\ EndAt(c) > StartAt(c)

C14_Witness ==
    /\ phase = "done"
    /\ \E i \in 1..Len(hist) :
          /\ hist[i].op = "post" /\ hist[i].res = ToString(UNPROCESSABLE_ENTITY)
          /\ \E c \in RunIds : StartAt(c) > i
    /\ Downs = <<"cleanup", "articleApi", "request">>
    /\ hist[Len(hist)] = Ev("testFailed", 0, 0, "setup")

\* C15: a teardown that raises does not prevent the other teardowns: every
\* resolved provider's teardown is attempted, and the first teardown failure
\* is reported only after all of them have been attempted.
C15_TeardownIsolation ==
    /\ \A i \in 1..Len(hist) :
          hist[i].op = "teardownError" =>
             /\ phase = "done"
             /\ TeardownFailures # {}
             /\ \A j \in TeardownFailures : j < i
             /\ \E j \in TeardownFailures :
                   /\ hist[j].res = hist[i].res
                   /\ \A k \in TeardownFailures : j <= k
             /\ \A j \in (i+1)..Len(hist) : hist[j].op \notin {"teardown", "teardownFailed", "teardownError"}
    /\ (phase = "done" /\ TeardownFailures # {}) =>
          /\ \A p \in ResolvedSet : p \in TornDown
          /\ Downs = reverse(Resolved)
          /\ \E i \in 1..Len(hist) : hist[i].op = "teardownError"

C15_Witness ==
    /\ phase = "done"
    /\ \E i \in TeardownFailures :
          /\ \E j \in (i+1)..Len(hist) : hist[j].op = "teardown"
          /\ \E j \in (i+1)..Len(hist) : hist[j].op = "teardownFailed"
          /\ \E c \in RunIds : StartAt(c) > i
    /\ \E i \in 1..Len(hist) : hist[i].op = "teardownError"

\* the article created by the testArticle fixture was registered with the
\* manager before the test body started
RegisteredBeforeBody(s) ==
    \E i \in 1..Len(hist) :
       /\ hist[i] = Ev("registerArticle", s, 0, "added")
       /\ \A j \in 1..i : hist[j].op # "bodyStart"

\* a delete request for s was issued after the test body finished
DeletedAfterBody(s) ==
    \E i \in 1..Len(hist) :
       /\ hist[i].op = "delete" /\ hist[i].slug = s
       /\ \E j \in 1..(i-1) : hist[j].op = "bodyEnd"

CreatedByFixture(s) ==
    \E i \in 1..Len(hist) :
       hist[i].op = "post" /\ hist[i].slug = s /\ hist[i].res = ToString(CREATED)

BodyEnded == \E i \in 1..Len(hist) : hist[i].op = "bodyEnd"

Merged == merge.next = Len(tests) + 1

ArgumentOrders(n) == {f \in [1..n -> 1..n] : \A i, j \in 1..n : f[i] = f[j] => i = j}

Permuted(sets, f) == [i \in 1..Len(sets) |-> sets[f[i]]]

\* every order of the arguments gives the composition that was computed
OrderIndependent ==
    \A f \in ArgumentOrders(Len(tests)) :
       mergeTests(Permuted(tests, f), merge.policy) = merge.fixtures

SharedNames(a, b) == DOMAIN a \cap DOMAIN b

ShareAName(sets) ==
    \E i, j \in 1..Len(sets) : i # j /\ SharedNames(sets[i], sets[j]) # {}

PairwiseDisjoint(sets) == ~ShareAName(sets)

\* sets that share a name map it to the same provider
Agreeing(sets) ==
    \A i, j \in 1..Len(sets) : \A n \in SharedNames(sets[i], sets[j]) : sets[i][n] = sets[j][n]

\* C18 as stated: for input sets that share a name, merging them in any
\* order yields the same name-to-provider mapping.
C18_Commutative == (Merged /\ ShareAName(tests)) => OrderIndependent

\* C18 amended: for input sets that share names, merging them in any order
\* yields the same name-to-provider mapping when the sets map every shared
\* name to the same provider.
C18_CommutativeWhenAgreeing ==
    (Merged /\ ShareAName(tests) /\ Agreeing(tests)) => OrderIndependent

C18_Witness ==
    /\ Merged
    /\ tests = <<TestOptionsFixtures, CleanupFixtures, PageObjectFixtures>>
    /\ merge.policy = "last"
    /\ OrderIndependent

\* C19: when the names of the merged sets are pairwise disjoint the merged
\* composition is the same for every order of the sets; the three sets of the
\* unified fixture are pairwise disjoint, so its composition does not depend
\* on the argument order.
C19_DisjointOrderIndependent ==
    /\ (Merged /\ PairwiseDisjoint(tests)) => OrderIndependent
    /\ PairwiseDisjoint(UnifiedArguments)
    /\ (Merged /\ \E f \in ArgumentOrders(Len(UnifiedArguments)) : tests = Permuted(UnifiedArguments, f)) =>
          /\ merge.fixtures = mergeTests(UnifiedArguments, merge.policy)
          /\ \A p \in Policies : merge.fixtures = mergeTests(UnifiedArguments, p)
          /\ DOMAIN merge.fixtures = PageObjectNames \cup {"apiRequest"} \cup CleanupFixtureNames

C19_Witness ==
    /\ Merged
    /\ tests = <<CleanupFixtures, PageObjectFixtures, ApiRequestFixtures>>
    /\ merge.policy = "last"
    /\ merge.fixtures["cleanup"] = "cleanupFixture"
    /\ merge.fixtures["homePage"] = "pageObjectFixture"

(* -------------------- claims about concurrent invocations -------------- *)
RegisteredIn(h, s) == \E i \in 1..Len(h) : h[i].op = "registerArticle" /\ h[i].slug = s

DeletedIn(h, s) == \E i \in 1..Len(h) : h[i].op = "delete" /\ h[i].slug = s

\* a step of the scheduled invocation that is a registerArticle or an
\* unregisterArticle call
BookkeepingCall ==
    /\ focus' = focus
    /\ Len(hist') = Len(hist) + 1
    /\ hist'[Len(hist')].op \in {"registerArticle", "unregisterArticle"}

\* a register or unregister in one invocation leaves the pending list of
\* the other as it was, and so does rescheduling
C20_PendingStep ==
    /\ BookkeepingCall => PendingOf(3 - focus)' = PendingOf(3 - focus)
    /\ focus' # focus => \A k \in {1, 2} : PendingOf(k)' = PendingOf(k)

\* a slug registered only in the other invocation is never deleted here
C20_NoForeignDelete ==
    \A k \in {1, 2} : \A s \in Slugs :
       (RegisteredIn(HistOf(3 - k), s) /\ ~RegisteredIn(HistOf(k), s)) => ~DeletedIn(HistOf(k), s)

\* C20: each test invocation has its own CleanupManager: in every
\* interleaving of two concurrently running invocations a register or
\* unregister in one never changes the pending list of the other, and a slug
\* registered only in one invocation is never deleted by the other's cleanup().
C20_InvocationScoped == []C20_NoForeignDelete /\ [][C20_PendingStep]_vars

C20_Witness ==
    /\ phase = "teardown"
    /\ runs[1].pc = "await"
    /\ peer.phase = "body"
    /\ PeerPending # <<>>
    /\ ~includes(PeerPending, runs[1].slug)
    /\ ~RegisteredIn(peer.hist, runs[1].slug)
    /\ \A i \in 1..Len(PeerPending) : ~RegisteredIn(hist, PeerPending[i])

(* ------------------- claims about a suspended cleanup() ---------------- *)
NumDeletesOf(h, c) == Cardinality({i \in 1..Len(h) : h[i].op = "delete" /\ h[i].run = c})

\* a step issues at most one delete request of run c, and only when the run
\* is called or when its delete request in flight has settled
C24_SequentialStep ==
    \A c \in RunIds :
        NumDeletesOf(hist', c) # NumDeletesOf(hist, c) =>
            /\ NumDeletesOf(hist', c) = NumDeletesOf(hist, c) + 1
            /\ runs'[c].pc = "await"
            /\ \/ runs[c].pc = "idle" /\ NumDeletesOf(hist, c) = 0
               \/ runs[c].pc = "await" /\ runs'[c].last \in {"true", "false", "throws"}

\* the requests of run c that have not settled: all it issued but the ones
\* the loop has gone past
C24_OneInFlight ==
    \A c \in RunIds :
        /\ runs[c].pc = "await" => NumDeletesOf(hist, c) = runs[c].idx
        /\ runs[c].pc = "done" => NumDeletesOf(hist, c) = runs[c].idx
        /\ runs[c].pc = "idle" => NumDeletesOf(hist, c) = 0

\* C24: within one cleanup() the delete calls are strictly sequential: the
\* next one is issued only after the previous one has completed or raised,
\* so at most one delete call of that cleanup() is in flight at any time.
C24_SequentialDeletes == []C24_OneInFlight /\ [][C24_SequentialStep]_vars

C24_Witness ==
    \E c \in RunIds :
        /\ runs[c].pc = "await"
        /\ runs[c].idx >= 2
        /\ runs[c].last = "throws"
        /\ NumDeletesOf(hist, c) = runs[c].idx

\* C26: under any interleaving of registerArticle and unregisterArticle
\* calls with a suspended cleanup(), a slug that is registered and not
\* unregistered afterwards either gets a delete request from that cleanup()
\* or is still pending when that cleanup() has completed.
C26_NoRegistrationLost ==
    \A c \in RunIds :
        (/\ Len(hist) > 0
         /\ EndAt(c) = Len(hist)
         /\ Cardinality(CleanupCalls) = 1)
        => \A s \in StillPendingAt(Len(hist)) :
              s \in Elems(DeletesOf(c)) \/ s \in Elems(Pending)

\* C27: unregisterArticle(s) called while cleanup() is suspended at the
\* delete request of another slug, before it has reached s, keeps that
\* cleanup() from issuing a delete request for s.
C27_UnregisteredWhileSuspendedNotDeleted ==
    \A c \in RunIds : \A s \in Slugs : \A k \in 1..Len(hist) :
        (/\ Cardinality(CleanupCalls) = 1
         /\ IsUnreg(k, s)
         /\ StartAt(c) \in 1..(k - 1)
         /\ EndAt(c) = 0 \/ EndAt(c) > k
         /\ \A i \in 1..(k - 1) : ~(hist[i].op = "delete" /\ hist[i].slug = s)
         /\ \A i \in (k + 1)..Len(hist) : ~IsReg(i, s))
        => \A i \in (k + 1)..Len(hist) : ~(hist[i].op = "delete" /\ hist[i].slug = s)

(* ------------------------- claims about the API client ----------------- *)
Last == client.last

\* the call that has just settled was made without failSilently and got an
\* error status: makeRequest applied createApiError to the response
ErrorStatusArrived == ~Last.resp.rejected /\ Last.resp.status >= BAD_REQUEST

\* C21: getArticle returns null when the server answers 404, and raises for
\* every other error status and for a body that does not match the schema.
C21_GetArticleNullOnlyOn404 ==
    Last.op = "getArticle" =>
        /\ (ErrorStatusArrived /\ Last.resp.status = NOT_FOUND) =>
              ~Last.result.raised /\ Last.result.value = "null"
        /\ (ErrorStatusArrived /\ Last.resp.status # NOT_FOUND) => Last.result.raised
        /\ (~Last.resp.rejected /\ ~ErrorStatusArrived /\ ~Last.resp.body.valid) =>
              Last.result.raised /\ Last.result.name = "SchemaValidationError"
        /\ (~Last.result.raised /\ Last.result.value = "null") =>
              ErrorStatusArrived /\ Last.resp.status = NOT_FOUND

C21_Witness ==
    /\ Last.op = "getArticle"
    /\ Last.resp.status = NOT_FOUND
    /\ Last.result.value = "null"
    /\ \A r \in ReqIds : client.requests[r].pc = "done"

\* C22: after a successful login the stored token is the token of the
\* returned user; after a login that raises the stored token is unchanged.
C22_LoginToken ==
    Last.op = "login" =>
        IF Last.result.raised
        THEN client.token = Last.tokenBefore
        ELSE /\ Last.result.value = "user"
             /\ client.token = Last.result.token
             /\ Last.result.token = Last.resp.body.token

C22_Witness ==
    /\ Last.op = "login"
    /\ ~Last.result.raised
    /\ Last.tokenBefore = 1
    /\ client.token = 2

\* C23: with failSilently an error status is returned with the body and
\* nothing is raised; without failSilently the same response raises an
\* ApiError; loginWithResponse returns the status and keeps the token.
C23_FailSilently ==
    /\ (Last.op = "loginWithResponse" /\ ErrorStatusArrived) =>
          /\ ~Last.result.raised
          /\ Last.result.status = Last.resp.status
          /\ client.token = Last.tokenBefore
    /\ (Last.op = "login" /\ ErrorStatusArrived) =>
          /\ Last.result.raised
          /\ Last.result.name \in ApiErrorNames

\* C25: deleteArticleIfExists resolves without raising, in the client and
\* in the service, for every outcome of the HTTP delete.
C25_DeleteIfExistsNeverRaises ==
    Last.op \in {"deleteArticleIfExists", "serviceDeleteArticleIfExists"} => ~Last.result.raised

\* C28: createApiError returns, without raising, an ApiError whose status
\* is the status passed in, for every status and every response body.
C28_CreateApiErrorTotal ==
    (Last.op \in {"login", "getArticle"} /\ ErrorStatusArrived) =>
        LET e == createApiError(Last.resp.status, Last.resp.body)
        IN  /\ ~e.raised
            /\ e.name \in ApiErrorNames
            /\ e.status = Last.resp.status

AllSettled == \A r \in ReqIds : client.requests[r].pc # "flying"

\* C29 as stated: once the requests have settled, the number of log entries
\* is the number of requests issued while logging was enabled since the last
\* clearLogs.
C29_LogCountsIssued == AllSettled => Len(client.logs) = client.issuedEnabled

\* a request of a client method settles
C29_SettleStep ==
    \A r \in ReqIds :
        (client.requests[r].pc = "flying" /\ client'.requests[r].pc = "done"
            /\ client.requests[r].op \in ClientOps)
        => IF client.enableLogging
           THEN client'.logs = Append(client.logs,
                                      IF client'.last.resp.rejected THEN "error" ELSE "status")
           ELSE client'.logs = client.logs

C29_LogInvariant ==
    /\ Len(client.logs) = client.completedEnabled
    /\ \A i \in 1..Len(client.logs) : client.logs[i] \in {"status", "error"}

\* C29 amended: the number of log entries is the number of requests that
\* settled while logging was enabled since the last clearLogs: each of them
\* appends exactly one entry (a status when a response arrived, an error when
\* the transport raised), a request that settles while logging is disabled
\* appends none, and changing the array getLogs returned never changes the log.
C29_LogCountsCompleted == []C29_LogInvariant /\ [][C29_SettleStep]_vars

C29_Witness ==
    /\ \A r \in ReqIds : client.requests[r].pc = "done"
    /\ client.logs = <<"error">>
    /\ client.completedEnabled = 1
    /\ ~client.enableLogging
    /\ client.returned.items = <<"error", "foreign">>

(* ------------------------ claims about ArticleBuilder ------------------ *)
\* what the fields of a built object are now
FieldsNow(o) ==
    [title |-> o.title, description |-> o.description, body |-> o.body,
     tagList |-> builder.heap[o.tagList]]

\* C30: an object returned by build() or buildPayload() is an independent
\* snapshot: no later call on the builder changes any of its fields,
\* tagList included.
C30_BuiltObjectIsSnapshot ==
    phase = "builder" =>
        \A i \in 1..Len(builder.built) : FieldsNow(builder.built[i]) = builder.built[i].copied

====
